---- MODULE Spec2Model ----
(***************************************************************************)
(* Storage engine of todo-wbs-app (src-tauri/src/db.rs): three SQLite      *)
(* tables (projects, tasks, daily_todos) behind one Mutex<Connection>.     *)
(*                                                                         *)
(* Every method of Database takes the mutex on entry and holds it until it *)
(* returns, so each method is one atomic action here.  The one exception   *)
(* is add_task_to_todo, which drops the guard after reading the title and  *)
(* takes the mutex again inside create_daily_todo: it is two actions, and  *)
(* any other method may run between them.  The section "threads" has the   *)
(* mutex itself: there a call is a thread that waits for the guard, runs   *)
(* its statements one by one and drops the guard.                          *)
(*                                                                         *)
(* The foreign keys declared by init_schema are enforced, as they are by   *)
(* the SQLite that rusqlite bundles (SQLITE_DEFAULT_FOREIGN_KEYS=1): an    *)
(* INSERT naming a missing parent row fails, ON DELETE CASCADE removes     *)
(* dependent tasks recursively, ON DELETE SET NULL clears daily_todos'     *)
(* task_id.  Every write is a single autocommit statement, so a failing    *)
(* statement changes nothing.  I/O failures of the database file are not   *)
(* modelled.                                                               *)
(*                                                                         *)
(* Option<T> is a sequence of length at most one: None is <<>>, Some(x) is *)
(* <<x>>.  Uuid::new_v4() is a fresh identifier: the next unused integer   *)
(* of the table.  Local::now(), formatted to the second, is an integer     *)
(* clock; the "%Y-%m-%d %H:%M:%S" text sorts as the instant does.          *)
(***************************************************************************)
EXTENDS Integers, Sequences, FiniteSets, TLC

VARIABLES
    projects,   \* table projects:    id -> row
    tasks,      \* table tasks:       id -> row
    todos,      \* table daily_todos: id -> row
    nextId,     \* [projects, tasks, todos |-> next fresh identifier]
    now,        \* the local clock, in seconds
    inflight,   \* add_task_to_todo calls between their two locked sections
    last,       \* the locked section that ran last: call, arguments, outcome
    mutex,      \* Mutex<Connection>: the thread that holds the guard, if any
    threads     \* per calling thread: the call it is in and where it stands

vars == <<projects, tasks, todos, nextId, now, inflight, last, mutex, threads>>

store == <<projects, tasks, todos>>

\* ---------------------------------------------------------------- bounds
MaxProjects == 2
MaxTasks == 3
MaxTodos == 2
MaxInFlight == 1
MaxThreads == 2

\* ---------------------------------------------------------------- values
None == <<>>
Some(x) == <<x>>

Max(S) == CHOOSE x \in S : \A y \in S : y <= x

Restrict(f, S) == [x \in S |-> f[x]]

\* Identifiers a caller may pass: every identifier ever issued, and 0, which
\* is never issued.
ProjectArgs == 0..MaxProjects
TaskArgs == 0..MaxTasks
TodoArgs == 0..MaxTodos
OptTaskArgs == {None} \cup {Some(t) : t \in TaskArgs}

Dates == {"2024-01-01", "2024-01-02"}

Alpha == [name |-> "Alpha", description |-> None,
          start_date |-> None, end_date |-> None]
Beta == [name |-> "Beta", description |-> Some("beta"),
         start_date |-> Some("2024-01-01"), end_date |-> Some("2024-01-02")]

WriteSpec == [title |-> "Write spec", description |-> None, status |-> "pending",
              priority |-> 0, start_date |-> None, end_date |-> None]
ReviewPR == [title |-> "Review PR", description |-> Some("review"),
             status |-> "done", priority |-> 1,
             start_date |-> Some("2024-01-01"), end_date |-> Some("2024-01-02"),
             progress |-> 100]

NewDates == [start_date |-> Some("2024-01-02"), end_date |-> None]

StandUp == [title |-> "Write spec", date |-> "2024-01-01", memo |-> None]
Retro == [title |-> "Retro", date |-> "2024-01-02", memo |-> Some("done early")]

\* What the callers of the specifications below pass.
ProjectInputs == {Alpha}
ProjectUpdates == {Beta}
TaskInputs == {WriteSpec}
TaskUpdates == {ReviewPR}
DateUpdates == {NewDates}
TodoInputs == {StandUp, Retro}
MemoUpdates == {None, Some("")}

\* Local::now() read by a creating call: the clock has not moved since the
\* last stamp, or it has moved on by a second.
Stamps == {now, now + 1}

Outcome(op, err, ret, note) ==
    [op |-> op, err |-> err, ret |-> ret, note |-> note]

\* conn.execute's row count for a statement with WHERE id = ?: the result the
\* callers discard.
Changed(id, table) == [changed |-> IF id \in DOMAIN table THEN 1 ELSE 0]

\* The threads that call into the Database, and a thread in no call.
Threads == 1..MaxThreads

Idle == [pc |-> "idle", op |-> "", arg |-> None, local |-> None, locks |-> 0]

\* ---------------------------------------------------------------- schema
\* The INSERTs with the foreign keys not enforced.
TaskFkOff(project_id, parent_id) == TRUE

TodoFkOff(task_id) == TRUE

\* tasks.project_id REFERENCES projects(id), tasks.parent_id REFERENCES
\* tasks(id): the check an INSERT INTO tasks has to pass.
TaskFkOk(project_id, parent_id) ==
    /\ project_id \in DOMAIN projects
    /\ parent_id = None \/ parent_id[1] \in DOMAIN tasks

\* daily_todos.task_id REFERENCES tasks(id).
TodoFkOk(task_id) ==
    task_id = None \/ task_id[1] \in DOMAIN tasks

\* A cascade that stops at the children of the deleted rows.
CascadeTasksOneLevel(S) ==
    S \cup {t \in DOMAIN tasks \ S : \E p \in S : tasks[t].parent_id = Some(p)}

\* tasks.parent_id ... ON DELETE CASCADE: deleting the rows S deletes the rows
\* whose parent_id names one of them, and so on until no row is left to take.
RECURSIVE CascadeTasks(_)
CascadeTasks(S) ==
    LET kids == {t \in DOMAIN tasks \ S : \E p \in S : tasks[t].parent_id = Some(p)}
    IN  IF kids = {} THEN S ELSE CascadeTasks(S \cup kids)

\* tasks.project_id without ON DELETE CASCADE: the project goes alone.
ProjectCascadeOff(id) == {}

\* tasks.project_id ... ON DELETE CASCADE: the tasks a deleted project takes
\* with it.
ProjectCascade(id) ==
    IF id \in DOMAIN projects
    THEN CascadeTasks({t \in DOMAIN tasks : tasks[t].project_id = id})
    ELSE {}

\* DELETE FROM tasks WHERE id = ?: the tasks the statement removes.
TaskCascade(id) ==
    IF id \in DOMAIN tasks THEN CascadeTasks({id}) ELSE {}

\* daily_todos.task_id without ON DELETE SET NULL: no row is touched.
ReferringNone(gone) == {}

\* The daily_todos rows whose task_id names one of the deleted tasks gone.
Referring(gone) ==
    {d \in DOMAIN todos : \E t \in gone : todos[d].task_id = Some(t)}

\* What a DELETE took with it, kept with its outcome.
Removed(gone) ==
    [removed |-> Restrict(tasks, gone), severed |-> Referring(gone)]

\* ON DELETE CASCADE in the place of ON DELETE SET NULL.
SetNullTodosCascade(gone) ==
    Restrict(todos, DOMAIN todos \ Referring(gone))

\* daily_todos.task_id ... ON DELETE SET NULL, for the deleted tasks gone.
SetNullTodos(gone) ==
    [d \in DOMAIN todos |->
        IF d \in Referring(gone)
        THEN [todos[d] EXCEPT !.task_id = None]
        ELSE todos[d]]

\* ---------------------------------------------------------------- init
Init ==
    /\ projects = << >>
    /\ tasks = << >>
    /\ todos = << >>
    /\ nextId = [projects |-> 1, tasks |-> 1, todos |-> 1]
    /\ now = 0
    /\ inflight = [s \in 1..MaxInFlight |-> None]
    /\ last = Outcome("new", FALSE, None, None)
    /\ mutex = None
    /\ threads = [c \in Threads |-> Idle]

\* ---------------------------------------------------------------- projects
CreateProject(in, created_at) ==
    LET id == nextId.projects
        row == [id |-> id, name |-> in.name, description |-> in.description,
                start_date |-> in.start_date, end_date |-> in.end_date,
                created_at |-> created_at]
    IN  /\ id <= MaxProjects
        /\ projects' = (id :> row) @@ projects
        /\ nextId' = [nextId EXCEPT !.projects = id + 1]
        /\ now' = created_at
        /\ last' = Outcome("create_project", FALSE, row, None)
        /\ UNCHANGED <<tasks, todos, inflight,
                       mutex, threads>>

\* UPDATE projects SET name, description, start_date, end_date WHERE id = ?
UpdateProjectRows(id, in) ==
    [p \in DOMAIN projects |->
        IF p = id
        THEN [projects[p] EXCEPT !.name = in.name, !.description = in.description,
                                 !.start_date = in.start_date,
                                 !.end_date = in.end_date]
        ELSE projects[p]]

UpdateProject(id, in) ==
    /\ projects' = UpdateProjectRows(id, in)
    /\ last' = Outcome("update_project", FALSE, None, Changed(id, projects))
    /\ UNCHANGED <<tasks, todos, nextId, now, inflight,
                   mutex, threads>>

DeleteProject(id) ==
    LET gone == ProjectCascade(id)
    IN  /\ projects' = Restrict(projects, DOMAIN projects \ {id})
        /\ tasks' = Restrict(tasks, DOMAIN tasks \ gone)
        /\ todos' = SetNullTodos(gone)
        /\ last' = Outcome("delete_project", FALSE, None, Removed(gone))
        /\ UNCHANGED <<nextId, now, inflight,
                       mutex, threads>>

\* ---------------------------------------------------------------- tasks
\* The query without its parent_id condition.
NextOrderIndexAnyParent(project_id, parent_id) ==
    LET found == {tasks[t].order_index : t \in
                    {u \in DOMAIN tasks : tasks[u].project_id = project_id}}
    IN  (IF found = {} THEN -1 ELSE Max(found)) + 1

\* COUNT(*) in the place of COALESCE(MAX(order_index), -1) + 1.
NextOrderIndexCount(project_id, parent_id) ==
    Cardinality({u \in DOMAIN tasks : /\ tasks[u].project_id = project_id
                                      /\ tasks[u].parent_id = parent_id})

\* SELECT COALESCE(MAX(order_index), -1) + 1 FROM tasks
\*  WHERE project_id = ?1 AND parent_id IS ?2
NextOrderIndex(project_id, parent_id) ==
    LET found == {tasks[t].order_index : t \in
                    {u \in DOMAIN tasks : /\ tasks[u].project_id = project_id
                                          /\ tasks[u].parent_id = parent_id}}
    IN  (IF found = {} THEN -1 ELSE Max(found)) + 1

CreateTask(project_id, parent_id, in, created_at) ==
    LET id == nextId.tasks
        row == [id |-> id, project_id |-> project_id, parent_id |-> parent_id,
                title |-> in.title, description |-> in.description,
                status |-> in.status, priority |-> in.priority,
                start_date |-> in.start_date, end_date |-> in.end_date,
                progress |-> 0,
                order_index |-> NextOrderIndex(project_id, parent_id),
                created_at |-> created_at]
    IN  /\ IF TaskFkOk(project_id, parent_id)
           THEN /\ id <= MaxTasks
                /\ tasks' = (id :> row) @@ tasks
                /\ nextId' = [nextId EXCEPT !.tasks = id + 1]
                /\ now' = created_at
                /\ last' = Outcome("create_task", FALSE, row, None)
           ELSE /\ last' = Outcome("create_task", TRUE, None, None)
                /\ UNCHANGED <<tasks, nextId, now>>
        /\ UNCHANGED <<projects, todos, inflight,
                       mutex, threads>>

\* The UPDATE without its WHERE clause.
UpdateTaskRowsNoWhere(id, in) ==
    [t \in DOMAIN tasks |->
        [tasks[t] EXCEPT !.title = in.title, !.description = in.description,
                         !.status = in.status, !.priority = in.priority,
                         !.start_date = in.start_date,
                         !.end_date = in.end_date, !.progress = in.progress]]

\* UPDATE tasks SET title, description, status, priority, start_date,
\*  end_date, progress WHERE id = ?
UpdateTaskRows(id, in) ==
    [t \in DOMAIN tasks |->
        IF t = id
        THEN [tasks[t] EXCEPT !.title = in.title, !.description = in.description,
                              !.status = in.status, !.priority = in.priority,
                              !.start_date = in.start_date,
                              !.end_date = in.end_date, !.progress = in.progress]
        ELSE tasks[t]]

UpdateTask(id, in) ==
    /\ tasks' = UpdateTaskRows(id, in)
    /\ last' = Outcome("update_task", FALSE, None, Changed(id, tasks))
    /\ UNCHANGED <<projects, todos, nextId, now, inflight,
                   mutex, threads>>

\* An UPDATE of the dates that also moves the task to the front of its group.
UpdateTaskDatesRowsFront(id, in) ==
    [t \in DOMAIN tasks |->
        IF t = id
        THEN [tasks[t] EXCEPT !.start_date = in.start_date,
                              !.end_date = in.end_date, !.order_index = 0]
        ELSE tasks[t]]

\* UPDATE tasks SET start_date, end_date WHERE id = ?
UpdateTaskDatesRows(id, in) ==
    [t \in DOMAIN tasks |->
        IF t = id
        THEN [tasks[t] EXCEPT !.start_date = in.start_date,
                              !.end_date = in.end_date]
        ELSE tasks[t]]

UpdateTaskDates(id, in) ==
    /\ tasks' = UpdateTaskDatesRows(id, in)
    /\ last' = Outcome("update_task_dates", FALSE, None, Changed(id, tasks))
    /\ UNCHANGED <<projects, todos, nextId, now, inflight,
                   mutex, threads>>

\* A DELETE that closes the gap: the siblings behind the deleted task move up.
DeleteTaskRowsRenumbered(id) ==
    [t \in DOMAIN tasks \ TaskCascade(id) |->
        IF /\ id \in DOMAIN tasks
           /\ tasks[t].project_id = tasks[id].project_id
           /\ tasks[t].parent_id = tasks[id].parent_id
           /\ tasks[t].order_index > tasks[id].order_index
        THEN [tasks[t] EXCEPT !.order_index = @ - 1]
        ELSE tasks[t]]

\* DELETE FROM tasks WHERE id = ?1: the rows left in the table.
DeleteTaskRows(id) == Restrict(tasks, DOMAIN tasks \ TaskCascade(id))

DeleteTask(id) ==
    LET gone == TaskCascade(id)
    IN  /\ tasks' = DeleteTaskRows(id)
        /\ todos' = SetNullTodos(gone)
        /\ last' = Outcome("delete_task", FALSE, None, Removed(gone))
        /\ UNCHANGED <<projects, nextId, now, inflight,
                       mutex, threads>>

\* ---------------------------------------------------------------- daily todos
\* The INSERT with the title and date parameters in each other's place.
TodoRowSwapped(id, task_id, title, date, memo, created_at) ==
    [id |-> id, task_id |-> task_id, title |-> date, date |-> title,
     completed |-> 0, memo |-> memo, created_at |-> created_at]

\* INSERT INTO daily_todos (id, task_id, title, date, completed, memo,
\*  created_at) VALUES (?1, ?2, ?3, ?4, 0, ?5, ?6)
TodoRow(id, task_id, title, date, memo, created_at) ==
    [id |-> id, task_id |-> task_id, title |-> title, date |-> date,
     completed |-> 0, memo |-> memo, created_at |-> created_at]

\* The DailyTodo a create returns: completed is the literal false.
TodoRet(row) == [row EXCEPT !.completed = FALSE]

CreateDailyTodo(task_id, in, created_at) ==
    LET id == nextId.todos
        row == TodoRow(id, task_id, in.title, in.date, in.memo, created_at)
    IN  /\ IF TodoFkOk(task_id)
           THEN /\ id <= MaxTodos
                /\ todos' = (id :> row) @@ todos
                /\ nextId' = [nextId EXCEPT !.todos = id + 1]
                /\ now' = created_at
                /\ last' = Outcome("create_daily_todo", FALSE, TodoRet(row), None)
           ELSE /\ last' = Outcome("create_daily_todo", TRUE, None, None)
                /\ UNCHANGED <<todos, nextId, now>>
        /\ UNCHANGED <<projects, tasks, inflight,
                       mutex, threads>>

\* row.get::<_, i32>(4)? == 1
CompletedFlag(stored) == stored = 1

\* The title copied into the todo in the place of the joined t.title.
JoinTaskTitleCopied(row) ==
    IF row.task_id # None THEN Some(row.title) ELSE None

\* LEFT JOIN tasks t ON dt.task_id = t.id: t.title, NULL without a match.
JoinTaskTitle(row) ==
    IF row.task_id # None /\ row.task_id[1] \in DOMAIN tasks
    THEN Some(tasks[row.task_id[1]].title)
    ELSE None

\* LEFT JOIN projects p ON t.project_id = p.id: p.name, NULL without a match.
JoinProjectName(row) ==
    IF /\ row.task_id # None
       /\ row.task_id[1] \in DOMAIN tasks
       /\ tasks[row.task_id[1]].project_id \in DOMAIN projects
    THEN Some(projects[tasks[row.task_id[1]].project_id].name)
    ELSE None

\* One DailyTodoWithTask of the result.
JoinRow(row) ==
    [id |-> row.id, task_id |-> row.task_id, title |-> row.title,
     date |-> row.date, completed |-> CompletedFlag(row.completed),
     memo |-> row.memo, created_at |-> row.created_at,
     task_title |-> JoinTaskTitle(row), project_name |-> JoinProjectName(row)]

\* ORDER BY dt.created_at alone.
OrderKeyLECreatedOnly(a, b) == a.created_at <= b.created_at

\* ORDER BY dt.completed, dt.created_at: a precedes-or-ties b.
OrderKeyLE(a, b) ==
    \/ a.completed < b.completed
    \/ a.completed = b.completed /\ a.created_at <= b.created_at

InsertRow(sorted, r) ==
    LET k == Cardinality({i \in 1..Len(sorted) : OrderKeyLE(sorted[i], r)})
    IN  SubSeq(sorted, 1, k) \o <<r>> \o SubSeq(sorted, k + 1, Len(sorted))

\* The sorter, run over the rows in the order the scan produced them.
RECURSIVE SortRows(_)
SortRows(rows) ==
    IF rows = <<>> THEN <<>>
    ELSE InsertRow(SortRows(SubSeq(rows, 1, Len(rows) - 1)), rows[Len(rows)])

\* The orders in which a scan may produce the rows S: SQL leaves the order of
\* rows that tie on the ORDER BY key open.
ScanOrders(S) ==
    {f \in [1..Cardinality(S) -> S] : \A i, j \in DOMAIN f : f[i] = f[j] => i = j}

\* ORDER BY order_index: a precedes-or-ties b.
TaskOrderLE(a, b) == a.order_index <= b.order_index

InsertTaskRow(sorted, r) ==
    LET k == Cardinality({i \in 1..Len(sorted) : TaskOrderLE(sorted[i], r)})
    IN  SubSeq(sorted, 1, k) \o <<r>> \o SubSeq(sorted, k + 1, Len(sorted))

RECURSIVE SortTaskRows(_)
SortTaskRows(rows) ==
    IF rows = <<>> THEN <<>>
    ELSE InsertTaskRow(SortTaskRows(SubSeq(rows, 1, Len(rows) - 1)),
                       rows[Len(rows)])

\* WHERE project_id = ?1, over the rows of table.
TasksOf(table, project_id) ==
    {t \in DOMAIN table : table[t].project_id = project_id}

\* The lists get_tasks_by_project may return for the rows of table.
TaskLists(table, project_id) ==
    {SortTaskRows([i \in DOMAIN scan |-> table[scan[i]]]) :
        scan \in ScanOrders(TasksOf(table, project_id))}

GetTasksByProject(project_id) ==
    \E ret \in TaskLists(tasks, project_id) :
        /\ last' = Outcome("get_tasks_by_project", FALSE, ret,
                           [project_id |-> project_id])
        /\ UNCHANGED <<projects, tasks, todos, nextId, now, inflight,
                       mutex, threads>>

\* WHERE dt.date = ?1
TodosOn(date) == {d \in DOMAIN todos : todos[d].date = date}

GetTodosByDate(date) ==
    \E scan \in ScanOrders(TodosOn(date)) :
        LET sorted == SortRows([i \in DOMAIN scan |-> todos[scan[i]]])
        IN  /\ last' = Outcome("get_todos_by_date", FALSE,
                               [i \in DOMAIN sorted |-> JoinRow(sorted[i])],
                               [date |-> date])
            /\ UNCHANGED <<projects, tasks, todos, nextId, now, inflight,
                           mutex, threads>>

\* The branches of new_value the other way round.
ToggleValueKept(current) == IF current = 1 THEN 1 ELSE 0

\* let new_value = if current == 1 { 0 } else { 1 };
ToggleValue(current) == IF current = 1 THEN 0 ELSE 1

\* Ok(new_value == 1)
ToggleRet(new_value) == new_value = 1

ToggleTodo(id) ==
    /\ IF id \in DOMAIN todos
       THEN LET current == todos[id].completed
                new_value == ToggleValue(current)
            IN  /\ todos' = [todos EXCEPT ![id].completed = new_value]
                /\ last' = Outcome("toggle_todo", FALSE, ToggleRet(new_value),
                                   [id |-> id, current |-> current,
                                    again |-> /\ last.op = "toggle_todo"
                                              /\ ~last.err
                                              /\ last.note.id = id])
       ELSE \* query_row: QueryReturnedNoRows
            /\ last' = Outcome("toggle_todo", TRUE, None, None)
            /\ UNCHANGED todos
    /\ UNCHANGED <<projects, tasks, nextId, now, inflight,
                   mutex, threads>>

\* UPDATE daily_todos SET memo = ?1 WHERE id = ?2
UpdateTodoMemoRows(id, memo) ==
    [d \in DOMAIN todos |->
        IF d = id THEN [todos[d] EXCEPT !.memo = memo] ELSE todos[d]]

UpdateTodoMemo(id, memo) ==
    /\ todos' = UpdateTodoMemoRows(id, memo)
    /\ last' = Outcome("update_todo_memo", FALSE, None, Changed(id, todos))
    /\ UNCHANGED <<projects, tasks, nextId, now, inflight,
                   mutex, threads>>

DeleteTodo(id) ==
    /\ todos' = Restrict(todos, DOMAIN todos \ {id})
    /\ last' = Outcome("delete_todo", FALSE, None, Changed(id, todos))
    /\ UNCHANGED <<projects, tasks, nextId, now, inflight,
                   mutex, threads>>

\* add_task_to_todo, first locked section: SELECT title FROM tasks WHERE id = ?
\* and drop(conn).  The call takes the first free slot of inflight.
AddTaskToTodoRead(task_id, date) ==
    \E s \in 1..MaxInFlight :
        /\ inflight[s] = None
        /\ \A r \in 1..(s - 1) : inflight[r] # None
        /\ IF task_id \in DOMAIN tasks
           THEN LET title == tasks[task_id].title
                IN  /\ nextId.todos <= MaxTodos
                    /\ inflight' = [inflight EXCEPT ![s] =
                            Some([task_id |-> task_id, date |-> date,
                                  title |-> title])]
                    /\ last' = Outcome("add_task_to_todo.read", FALSE, title, None)
           ELSE \* query_row: QueryReturnedNoRows; the call returns the error
                /\ last' = Outcome("add_task_to_todo", TRUE, None, None)
                /\ UNCHANGED inflight
        /\ UNCHANGED <<projects, tasks, todos, nextId, now,
                       mutex, threads>>

\* add_task_to_todo, second locked section:
\* self.create_daily_todo(Some(task_id), &title, date, None)
AddTaskToTodoCreate(s, created_at) ==
    /\ inflight[s] # None
    /\ LET call == inflight[s][1]
           id == nextId.todos
           task_id == Some(call.task_id)
           row == TodoRow(id, task_id, call.title, call.date, None, created_at)
       IN  /\ inflight' = [inflight EXCEPT ![s] = None]
           /\ IF TodoFkOk(task_id)
              THEN /\ id <= MaxTodos
                   /\ todos' = (id :> row) @@ todos
                   /\ nextId' = [nextId EXCEPT !.todos = id + 1]
                   /\ now' = created_at
                   /\ last' = Outcome("add_task_to_todo", FALSE, TodoRet(row),
                                      [call |-> call])
              ELSE /\ last' = Outcome("add_task_to_todo", TRUE, None,
                                      [call |-> call])
                   /\ UNCHANGED <<todos, nextId, now>>
    /\ UNCHANGED <<projects, tasks,
                   mutex, threads>>

\* ---------------------------------------------------------------- daily report
\* commands.rs, generate_daily_report.  The document is the sequence of its
\* lines: every piece the command pushes ends in "\n", and "" is an empty
\* line.  The literals of the source are Japanese text; they are spelled here
\* in Latin letters.

\* format!("# 日報 - {}\n\n", date): the title line; an empty line follows it.
TitleLine(date) == "# Nippou - " \o date

\* "## 完了したタスク\n"
HeadCompleted == "## Kanryou shita tasuku"

\* "\n## 未完了のタスク\n", after its leading "\n"
HeadIncomplete == "## Mikanryou no tasuku"

\* "\n## メモ\n{}\n", after its leading "\n" and before the memo
HeadMemo == "## Memo"

\* "なし\n"
Placeholder == "nashi"

\* if let Some(ref project) = todo.project_name { format!("{}: ", project) }
\* else { String::new() }
Prefix(todo) ==
    IF todo.project_name # None THEN todo.project_name[1] \o ": " ELSE ""

\* A completed item with a memo line also when the memo is the empty string.
CompletedLinesAnyMemo(todo) ==
    <<"- [x] " \o Prefix(todo) \o todo.title>>
    \o (IF todo.memo # None THEN <<"  - " \o todo.memo[1]>> ELSE << >>)

\* format!("- [x] {}{}\n", prefix, todo.title), and format!("  - {}\n", m)
\* if let Some(ref m) = todo.memo and !m.is_empty()
CompletedLines(todo) ==
    <<"- [x] " \o Prefix(todo) \o todo.title>>
    \o (IF todo.memo # None /\ todo.memo[1] # ""
        THEN <<"  - " \o todo.memo[1]>>
        ELSE << >>)

\* format!("- [ ] {}{}\n", prefix, todo.title)
IncompleteLines(todo) == <<"- [ ] " \o Prefix(todo) \o todo.title>>

\* todos.iter().filter(|t| t.completed).collect()
CompletedOf(fetched) == SelectSeq(fetched, LAMBDA t : t.completed)

\* todos.iter().filter(|t| !t.completed).collect()
IncompleteOf(fetched) == SelectSeq(fetched, LAMBDA t : ~t.completed)

\* for todo in completed { ... }: the lines of the items, one item after another
RECURSIVE CompletedItems(_)
CompletedItems(items) ==
    IF items = << >> THEN << >>
    ELSE CompletedLines(Head(items)) \o CompletedItems(Tail(items))

\* for todo in incomplete { ... }
RECURSIVE IncompleteItems(_)
IncompleteItems(items) ==
    IF items = << >> THEN << >>
    ELSE IncompleteLines(Head(items)) \o IncompleteItems(Tail(items))

\* The memo section pushed whatever the memo argument is.
MemoSectionAlways(memo) == <<"", HeadMemo, memo>>

\* if !memo.is_empty() { report.push_str(&format!("\n## メモ\n{}\n", memo)) }
MemoSection(memo) == IF memo # "" THEN <<"", HeadMemo, memo>> ELSE << >>

\* The report built from the fetched todos.
Report(fetched, date, memo) ==
    <<TitleLine(date), "", HeadCompleted>>
    \o (IF CompletedOf(fetched) = << >>
        THEN <<Placeholder>>
        ELSE CompletedItems(CompletedOf(fetched)))
    \o <<"", HeadIncomplete>>
    \o (IF IncompleteOf(fetched) = << >>
        THEN <<Placeholder>>
        ELSE IncompleteItems(IncompleteOf(fetched)))
    \o MemoSection(memo)

\* What generate_daily_report's callers pass as memo.
ReportMemos == {"", "Focus day"}

\* The todos created before a report is asked for.
WriteSpecTodo == [title |-> "Write spec", date |-> "2024-01-01",
                  memo |-> Some("done early")]
ReviewPRTodo == [title |-> "Review PR", date |-> "2024-01-01", memo |-> None]
BlankMemoTodo == [title |-> "Retro", date |-> "2024-01-02", memo |-> Some("")]

ReportInputs == {WriteSpecTodo, ReviewPRTodo, BlankMemoTodo}

\* db.get_todos_by_date(&date)? is the one locked section of the command; the
\* rest works on the fetched rows.
GenerateDailyReport(date, memo) ==
    \E scan \in ScanOrders(TodosOn(date)) :
        LET sorted == SortRows([i \in DOMAIN scan |-> todos[scan[i]]])
            fetched == [i \in DOMAIN sorted |-> JoinRow(sorted[i])]
        IN  /\ last' = Outcome("generate_daily_report", FALSE,
                               Report(fetched, date, memo),
                               [date |-> date, memo |-> memo,
                                fetched |-> fetched])
            /\ UNCHANGED <<projects, tasks, todos, nextId, now, inflight,
                           mutex, threads>>

\* ---------------------------------------------------------------- threads
\* The methods statement by statement, with the mutex explicit.  A thread's
\* record holds the method it is in (op), its arguments (arg), the value it has
\* read so far (local), the number of times the call has taken the guard
\* (locks) and the place it stands at (pc):
\*   "lock"    at self.conn.lock() on entry to the method
\*   "exec"    holding the guard, at the conn.execute of a one-statement method
\*   "select"  create_task, at the SELECT MAX(order_index) query
\*   "insert"  create_task, at the INSERT
\*   "title"   add_task_to_todo, at the SELECT title query
\*   "relock"  add_task_to_todo, at self.conn.lock() inside create_daily_todo
\*   "create"  add_task_to_todo, at the INSERT of create_daily_todo
\* The guard is dropped where the method returns.

\* The calls of a method that are under way.
Entering(op) == Cardinality({c \in Threads : threads[c].op = op})

\* A thread enters a method.  Calls that create a row are held back when the
\* table's identifiers are used up by the rows stored and the calls under way.
ThreadCall(c, op, arg) ==
    /\ threads[c].pc = "idle"
    /\ op = "create_project" => nextId.projects + Entering(op) <= MaxProjects
    /\ op = "create_task" => nextId.tasks + Entering(op) <= MaxTasks
    /\ op = "add_task_to_todo" => nextId.todos + Entering(op) <= MaxTodos
    /\ threads' = [threads EXCEPT ![c] =
            [pc |-> "lock", op |-> op, arg |-> arg, local |-> None, locks |-> 0]]
    /\ UNCHANGED <<projects, tasks, todos, nextId, now, inflight, last, mutex>>

\* A lock() that returns whoever holds the guard.
MutexIgnored == TRUE

\* Mutex::lock blocks until no thread holds the guard.
MutexFree == mutex = None

\* A lock() that returns without taking the guard.
HolderNone(c) == None

\* The guard lock() returns belongs to the calling thread.
Holder(c) == Some(c)

\* The statement a thread stands at once it has the guard.
AfterLock(t) ==
    IF t.pc = "relock" THEN "create"
    ELSE IF t.op = "create_task" THEN "select"
    ELSE IF t.op = "add_task_to_todo" THEN "title"
    ELSE "exec"

\* let conn = self.conn.lock().unwrap();
ThreadLock(c) ==
    /\ threads[c].pc \in {"lock", "relock"}
    /\ MutexFree
    /\ mutex' = Holder(c)
    /\ threads' = [threads EXCEPT ![c].pc = AfterLock(threads[c]),
                                  ![c].locks = threads[c].locks + 1]
    /\ UNCHANGED <<projects, tasks, todos, nextId, now, inflight, last>>

\* The one statement of create_project, delete_project, update_task or
\* delete_task, and the return that drops the guard.
ThreadExec(c) ==
    LET t == threads[c]
    IN  /\ t.pc = "exec"
        /\ \/ /\ t.op = "create_project"
              /\ LET id == nextId.projects
                     row == [id |-> id, name |-> t.arg.name,
                             description |-> t.arg.description,
                             start_date |-> t.arg.start_date,
                             end_date |-> t.arg.end_date, created_at |-> now]
                 IN  /\ projects' = (id :> row) @@ projects
                     /\ nextId' = [nextId EXCEPT !.projects = id + 1]
                     /\ last' = Outcome("create_project", FALSE, row, None)
                     /\ UNCHANGED <<tasks, todos>>
           \/ /\ t.op = "update_task"
              /\ tasks' = UpdateTaskRows(t.arg.id, t.arg.in)
              /\ last' = Outcome("update_task", FALSE, None,
                                 Changed(t.arg.id, tasks))
              /\ UNCHANGED <<projects, todos, nextId>>
           \/ /\ t.op = "delete_task"
              /\ tasks' = Restrict(tasks, DOMAIN tasks \ TaskCascade(t.arg.id))
              /\ todos' = SetNullTodos(TaskCascade(t.arg.id))
              /\ last' = Outcome("delete_task", FALSE, None,
                                 Changed(t.arg.id, tasks))
              /\ UNCHANGED <<projects, nextId>>
           \/ /\ t.op = "delete_project"
              /\ projects' = Restrict(projects, DOMAIN projects \ {t.arg.id})
              /\ tasks' = Restrict(tasks,
                                   DOMAIN tasks \ ProjectCascade(t.arg.id))
              /\ todos' = SetNullTodos(ProjectCascade(t.arg.id))
              /\ last' = Outcome("delete_project", FALSE, None,
                                 Removed(ProjectCascade(t.arg.id)))
              /\ UNCHANGED nextId
        /\ mutex' = None
        /\ threads' = [threads EXCEPT ![c] = Idle]
        /\ UNCHANGED <<now, inflight>>

\* create_task: let order_index: i32 = conn.query_row(SELECT COALESCE(MAX ...
ThreadSelectOrder(c) ==
    LET t == threads[c]
    IN  /\ t.pc = "select"
        /\ threads' = [threads EXCEPT
                ![c].pc = "insert",
                ![c].local = NextOrderIndex(t.arg.project_id, t.arg.parent_id)]
        /\ UNCHANGED <<projects, tasks, todos, nextId, now, inflight, last, mutex>>

\* create_task: conn.execute(INSERT INTO tasks ...)? with the order_index read
\* before, and the return that drops the guard.
ThreadInsertTask(c) ==
    LET t == threads[c]
        id == nextId.tasks
        row == [id |-> id, project_id |-> t.arg.project_id,
                parent_id |-> t.arg.parent_id,
                title |-> t.arg.in.title, description |-> t.arg.in.description,
                status |-> t.arg.in.status, priority |-> t.arg.in.priority,
                start_date |-> t.arg.in.start_date,
                end_date |-> t.arg.in.end_date,
                progress |-> 0, order_index |-> t.local, created_at |-> now]
    IN  /\ t.pc = "insert"
        /\ IF TaskFkOk(t.arg.project_id, t.arg.parent_id)
           THEN /\ tasks' = (id :> row) @@ tasks
                /\ nextId' = [nextId EXCEPT !.tasks = id + 1]
                /\ last' = Outcome("create_task", FALSE, row, None)
           ELSE /\ last' = Outcome("create_task", TRUE, None, None)
                /\ UNCHANGED <<tasks, nextId>>
        /\ mutex' = None
        /\ threads' = [threads EXCEPT ![c] = Idle]
        /\ UNCHANGED <<projects, todos, now, inflight>>

\* add_task_to_todo without its drop(conn).
DropConnMissing == mutex

\* add_task_to_todo: drop(conn);
DropConn == None

\* add_task_to_todo: the title query; then drop(conn), or the return of the
\* query's error, which drops the guard as well.
ThreadSelectTitle(c) ==
    LET t == threads[c]
    IN  /\ t.pc = "title"
        /\ IF t.arg.task_id \in DOMAIN tasks
           THEN /\ threads' = [threads EXCEPT
                        ![c].pc = "relock",
                        ![c].local = tasks[t.arg.task_id].title]
                /\ mutex' = DropConn
                /\ last' = Outcome("add_task_to_todo.read", FALSE,
                                   tasks[t.arg.task_id].title, None)
           ELSE /\ threads' = [threads EXCEPT ![c] = Idle]
                /\ mutex' = None
                /\ last' = Outcome("add_task_to_todo", TRUE, None, None)
        /\ UNCHANGED <<projects, tasks, todos, nextId, now, inflight>>

\* The title of the task as it is stored when create_daily_todo runs.
TitleReread(t) ==
    IF t.arg.task_id \in DOMAIN tasks THEN tasks[t.arg.task_id].title ELSE t.local

\* let title: String = ...: the title create_daily_todo is called with.
TitleRead(t) == t.local

\* add_task_to_todo: self.create_daily_todo(Some(task_id), &title, date, None),
\* its INSERT and the return that drops the guard.
ThreadInsertTodo(c) ==
    LET t == threads[c]
        id == nextId.todos
        row == TodoRow(id, Some(t.arg.task_id), TitleRead(t), t.arg.date,
                       None, now)
        call == [task_id |-> t.arg.task_id, date |-> t.arg.date,
                 title |-> t.local]
    IN  /\ t.pc = "create"
        /\ IF TodoFkOk(Some(t.arg.task_id))
           THEN /\ todos' = (id :> row) @@ todos
                /\ nextId' = [nextId EXCEPT !.todos = id + 1]
                /\ last' = Outcome("add_task_to_todo", FALSE, TodoRet(row),
                                   [call |-> call])
           ELSE /\ last' = Outcome("add_task_to_todo", TRUE, None,
                                   [call |-> call])
                /\ UNCHANGED <<todos, nextId>>
        /\ mutex' = None
        /\ threads' = [threads EXCEPT ![c] = Idle]
        /\ UNCHANGED <<projects, tasks, now, inflight>>

\* ---------------------------------------------------------------- specifications
\* Every method of the engine, called with every argument.
Next ==
    \/ \E in \in ProjectInputs, t \in Stamps : CreateProject(in, t)
    \/ \E id \in ProjectArgs, in \in ProjectUpdates : UpdateProject(id, in)
    \/ \E id \in ProjectArgs : DeleteProject(id)
    \/ \E p \in ProjectArgs, q \in OptTaskArgs, in \in TaskInputs, t \in Stamps :
          CreateTask(p, q, in, t)
    \/ \E id \in TaskArgs, in \in TaskUpdates : UpdateTask(id, in)
    \/ \E id \in TaskArgs, in \in DateUpdates : UpdateTaskDates(id, in)
    \/ \E id \in TaskArgs : DeleteTask(id)
    \/ \E p \in ProjectArgs : GetTasksByProject(p)
    \/ \E q \in OptTaskArgs, in \in TodoInputs, t \in Stamps :
          CreateDailyTodo(q, in, t)
    \/ \E d \in Dates : GetTodosByDate(d)
    \/ \E id \in TodoArgs : ToggleTodo(id)
    \/ \E id \in TodoArgs, m \in MemoUpdates : UpdateTodoMemo(id, m)
    \/ \E id \in TodoArgs : DeleteTodo(id)
    \/ \E id \in TaskArgs, d \in Dates : AddTaskToTodoRead(id, d)
    \/ \E s \in 1..MaxInFlight, t \in Stamps : AddTaskToTodoCreate(s, t)
    \/ \E d \in Dates, m \in ReportMemos : GenerateDailyReport(d, m)

Spec == Init /\ [][Next]_vars

\* The specifications below are Spec with the callers held to some of the
\* methods and to some of the arguments; unless a specification says
\* otherwise, its calls fall within one second.

\* Callers that only create projects and tasks.
NextOrder ==
    \/ \E in \in ProjectInputs : CreateProject(in, now)
    \/ \E p \in ProjectArgs, q \in OptTaskArgs, in \in TaskInputs, t \in Stamps :
          CreateTask(p, q, in, t)

SpecOrder == Init /\ [][NextOrder]_vars

\* Callers that build, update and delete the task tree of one project at a
\* time: a project is created when none is stored.
NextTasks ==
    \/ \E in \in ProjectInputs : projects = << >> /\ CreateProject(in, now)
    \/ \E id \in ProjectArgs : DeleteProject(id)
    \/ \E p \in ProjectArgs, q \in OptTaskArgs, in \in TaskInputs :
          CreateTask(p, q, in, now)
    \/ \E id \in TaskArgs, in \in TaskUpdates : UpdateTask(id, in)
    \/ \E id \in TaskArgs, in \in DateUpdates : UpdateTaskDates(id, in)
    \/ \E id \in TaskArgs : DeleteTask(id)

SpecTasks == Init /\ [][NextTasks]_vars

\* Callers of the update methods, over one project at a time and tasks
\* without parents.
NextUpdates ==
    \/ \E in \in ProjectInputs : projects = << >> /\ CreateProject(in, now)
    \/ \E id \in ProjectArgs, in \in ProjectUpdates : UpdateProject(id, in)
    \/ \E id \in ProjectArgs : DeleteProject(id)
    \/ \E p \in ProjectArgs, in \in TaskInputs : CreateTask(p, None, in, now)
    \/ \E id \in TaskArgs, in \in TaskUpdates : UpdateTask(id, in)
    \/ \E id \in TaskArgs, in \in DateUpdates : UpdateTaskDates(id, in)
    \/ \E id \in TaskArgs : DeleteTask(id)

SpecUpdates == Init /\ [][NextUpdates]_vars

\* Callers that build task trees over several projects, hang one todo on a
\* task, toggle it and delete projects.
NextProjects ==
    \/ \E in \in ProjectInputs : CreateProject(in, now)
    \/ \E id \in ProjectArgs : DeleteProject(id)
    \/ \E p \in ProjectArgs, q \in OptTaskArgs, in \in TaskInputs :
          CreateTask(p, q, in, now)
    \/ \E t \in DOMAIN tasks :
          todos = << >> /\ CreateDailyTodo(Some(t), Retro, now)
    \/ \E id \in TodoArgs : ToggleTodo(id)

SpecProjects == Init /\ [][NextProjects]_vars

\* Callers that build the task tree of one project, delete tasks and list
\* the project's tasks.
NextList ==
    \/ \E in \in ProjectInputs : projects = << >> /\ CreateProject(in, now)
    \/ \E p \in DOMAIN projects, q \in OptTaskArgs, in \in TaskInputs :
          CreateTask(p, q, in, now)
    \/ \E id \in TaskArgs : DeleteTask(id)
    \/ \E p \in ProjectArgs : GetTasksByProject(p)

SpecList == Init /\ [][NextList]_vars

\* Callers that build the task tree of one project, hang todos on its tasks
\* and delete tasks.
NextCascade ==
    \/ \E in \in ProjectInputs : projects = << >> /\ CreateProject(in, now)
    \/ \E p \in DOMAIN projects, q \in OptTaskArgs, in \in TaskInputs :
          CreateTask(p, q, in, now)
    \/ \E id \in TaskArgs : DeleteTask(id)
    \/ \E t \in DOMAIN tasks, in \in TodoInputs :
          CreateDailyTodo(Some(t), in, now)

SpecCascade == Init /\ [][NextCascade]_vars

\* Callers that create, toggle, annotate and delete todos without a task.
NextToggle ==
    \/ \E in \in TodoInputs : CreateDailyTodo(None, in, now)
    \/ \E id \in TodoArgs : ToggleTodo(id)
    \/ \E id \in TodoArgs, m \in MemoUpdates : UpdateTodoMemo(id, m)
    \/ \E id \in TodoArgs : DeleteTodo(id)

SpecToggle == Init /\ [][NextToggle]_vars

\* Callers that create todos, with or without the one stored task, within a
\* second or a second apart, toggle and delete them and list a date.
NextTodos ==
    \/ \E in \in ProjectInputs : projects = << >> /\ CreateProject(in, now)
    \/ \E p \in DOMAIN projects, in \in TaskInputs :
          tasks = << >> /\ CreateTask(p, None, in, now)
    \/ \E q \in OptTaskArgs, in \in TodoInputs, t \in Stamps :
          CreateDailyTodo(q, in, t)
    \/ \E d \in Dates : GetTodosByDate(d)
    \/ \E id \in TodoArgs : ToggleTodo(id)
    \/ \E id \in TodoArgs : DeleteTodo(id)

SpecTodos == Init /\ [][NextTodos]_vars

\* Callers of add_task_to_todo and toggle_todo, racing with updates and
\* deletions of the one stored task.
NextAdd ==
    \/ \E in \in ProjectInputs : projects = << >> /\ CreateProject(in, now)
    \/ \E p \in ProjectArgs, in \in TaskInputs :
          tasks = << >> /\ CreateTask(p, None, in, now)
    \/ \E id \in TaskArgs, in \in TaskUpdates : UpdateTask(id, in)
    \/ \E id \in TaskArgs : DeleteTask(id)
    \/ \E id \in TodoArgs : ToggleTodo(id)
    \/ \E id \in TaskArgs : AddTaskToTodoRead(id, "2024-01-01")
    \/ \E s \in 1..MaxInFlight : AddTaskToTodoCreate(s, now)

SpecAdd == Init /\ [][NextAdd]_vars

\* Callers that create tasks and todos under identifiers that may name no
\* stored row, and delete tasks.
NextCreates ==
    \/ \E in \in ProjectInputs : projects = << >> /\ CreateProject(in, now)
    \/ \E p \in ProjectArgs, q \in OptTaskArgs, in \in TaskInputs :
          CreateTask(p, q, in, now)
    \/ \E id \in TaskArgs : DeleteTask(id)
    \/ \E q \in OptTaskArgs : CreateDailyTodo(q, StandUp, now)

SpecCreates == Init /\ [][NextCreates]_vars

\* Callers that keep up to two tasks of one project at a time, hang todos on
\* tasks named by the caller or read by add_task_to_todo, and delete tasks
\* and the project, also between the two sections of add_task_to_todo.
NextRefs ==
    \/ \E in \in ProjectInputs : projects = << >> /\ CreateProject(in, now)
    \/ \E id \in DOMAIN projects : DeleteProject(id)
    \/ \E p \in DOMAIN projects, in \in TaskInputs,
          q \in {None} \cup {Some(t) : t \in DOMAIN tasks} :
          Cardinality(DOMAIN tasks) < 2 /\ CreateTask(p, q, in, now)
    \/ \E id \in DOMAIN tasks : DeleteTask(id)
    \/ \E q \in OptTaskArgs : CreateDailyTodo(q, StandUp, now)
    \/ \E id \in TaskArgs : AddTaskToTodoRead(id, "2024-01-01")
    \/ \E s \in 1..MaxInFlight : AddTaskToTodoCreate(s, now)

SpecRefs == Init /\ [][NextRefs]_vars

\* Callers that create todos, with or without the one stored task, toggle
\* them and ask for the report of a date.
NextReport ==
    \/ \E in \in ProjectInputs : projects = << >> /\ CreateProject(in, now)
    \/ \E p \in DOMAIN projects, in \in TaskInputs :
          tasks = << >> /\ CreateTask(p, None, in, now)
    \/ \E q \in OptTaskArgs, in \in ReportInputs : CreateDailyTodo(q, in, now)
    \/ \E id \in TodoArgs : ToggleTodo(id)
    \/ \E d \in Dates, m \in ReportMemos : GenerateDailyReport(d, m)

SpecReport == Init /\ [][NextReport]_vars

\* Callers that hang todos on the one stored task, rename the task and its
\* project, delete them and list a date.
NextJoin ==
    \/ \E in \in ProjectInputs : projects = << >> /\ CreateProject(in, now)
    \/ \E id \in DOMAIN projects, in \in ProjectUpdates : UpdateProject(id, in)
    \/ \E id \in DOMAIN projects : DeleteProject(id)
    \/ \E p \in DOMAIN projects, in \in TaskInputs :
          tasks = << >> /\ CreateTask(p, None, in, now)
    \/ \E id \in DOMAIN tasks, in \in TaskUpdates : UpdateTask(id, in)
    \/ \E id \in DOMAIN tasks : DeleteTask(id)
    \/ \E q \in OptTaskArgs : CreateDailyTodo(q, StandUp, now)
    \/ \E d \in Dates : GetTodosByDate(d)

SpecJoin == Init /\ [][NextJoin]_vars

\* Threads that create projects and tasks under stored projects and parents.
NextRace ==
    \/ \E c \in Threads, in \in ProjectInputs :
          projects = << >> /\ ThreadCall(c, "create_project", in)
    \/ \E c \in Threads, p \in DOMAIN projects, in \in TaskInputs,
          q \in {None} \cup {Some(t) : t \in DOMAIN tasks} :
          ThreadCall(c, "create_task",
                     [project_id |-> p, parent_id |-> q, in |-> in])
    \/ \E c \in Threads : ThreadLock(c)
    \/ \E c \in Threads : ThreadExec(c)
    \/ \E c \in Threads : ThreadSelectOrder(c)
    \/ \E c \in Threads : ThreadInsertTask(c)

SpecRace == Init /\ [][NextRace]_vars

\* Threads that create a project and tasks, update and delete stored tasks
\* (the editors), and threads that add stored tasks to a date's todos (the
\* adders).
Adders == {c \in Threads : c % 2 = 1}

Editors == Threads \ Adders

NextLocked ==
    \/ \E c \in Editors, in \in ProjectInputs :
          nextId.projects = 1 /\ ThreadCall(c, "create_project", in)
    \/ \E c \in Editors, p \in DOMAIN projects, in \in TaskInputs :
          /\ Cardinality(DOMAIN tasks) < 2
          /\ ThreadCall(c, "create_task",
                        [project_id |-> p, parent_id |-> None, in |-> in])
    \/ \E c \in Editors, id \in DOMAIN tasks, in \in TaskUpdates :
          ThreadCall(c, "update_task", [id |-> id, in |-> in])
    \/ \E c \in Editors, id \in DOMAIN tasks :
          ThreadCall(c, "delete_task", [id |-> id])
    \/ \E c \in Editors, id \in DOMAIN projects :
          ThreadCall(c, "delete_project", [id |-> id])
    \/ \E c \in Adders, id \in DOMAIN tasks :
          ThreadCall(c, "add_task_to_todo",
                     [task_id |-> id, date |-> "2024-01-01"])
    \/ \E c \in Threads : ThreadLock(c)
    \/ \E c \in Threads : ThreadExec(c)
    \/ \E c \in Threads : ThreadSelectOrder(c)
    \/ \E c \in Threads : ThreadInsertTask(c)
    \/ \E c \in Threads : ThreadSelectTitle(c)
    \/ \E c \in Threads : ThreadInsertTodo(c)

SpecLocked == Init /\ [][NextLocked]_vars

\* A statement of a thread that holds the guard.
ThreadStep(c) ==
    \/ ThreadExec(c)
    \/ ThreadSelectOrder(c)
    \/ ThreadInsertTask(c)
    \/ ThreadSelectTitle(c)
    \/ ThreadInsertTodo(c)

\* An editor that creates the project and its tasks, updates and deletes
\* tasks, next to adders, under a scheduler that lets a thread holding the
\* guard run its next statement and lets no thread wait for ever for a guard
\* that is free again and again.
NextFair ==
    \/ \E c \in Editors, in \in ProjectInputs :
          nextId.projects = 1 /\ ThreadCall(c, "create_project", in)
    \/ \E c \in Editors, p \in DOMAIN projects :
          /\ tasks = << >>
          /\ ThreadCall(c, "create_task",
                        [project_id |-> p, parent_id |-> None, in |-> WriteSpec])
    \/ \E c \in Editors, id \in DOMAIN tasks, in \in TaskUpdates :
          ThreadCall(c, "update_task", [id |-> id, in |-> in])
    \/ \E c \in Editors, id \in DOMAIN tasks :
          ThreadCall(c, "delete_task", [id |-> id])
    \/ \E c \in Adders, id \in DOMAIN tasks :
          ThreadCall(c, "add_task_to_todo",
                     [task_id |-> id, date |-> "2024-01-01"])
    \/ \E c \in Threads : ThreadLock(c)
    \/ \E c \in Threads : ThreadStep(c)

SpecFair ==
    /\ Init
    /\ [][NextFair]_vars
    /\ \A c \in Threads : SF_vars(ThreadLock(c)) /\ WF_vars(ThreadStep(c))

\* ---------------------------------------------------------------- claims
SameGroup(a, b) ==
    /\ tasks[a].project_id = tasks[b].project_id
    /\ tasks[a].parent_id = tasks[b].parent_id

Group(t) == {u \in DOMAIN tasks : SameGroup(u, t)}

\* C1: under callers that only create, the tasks of one (project_id,
\* parent_id) group carry order_index 0, 1, 2, ... in the order of their
\* creation, whatever was created in other groups in between.  Identifiers
\* are issued in call order, so the tasks of the group created before t are
\* those of the group with a smaller identifier.
C1_OrderIndexInCallOrder ==
    \A t \in DOMAIN tasks :
        tasks[t].order_index = Cardinality({u \in Group(t) : u < t})

\* Two tasks of one group with a task of another group created between them.
C1_Witness ==
    \E a, b, c \in DOMAIN tasks :
        /\ a < b /\ b < c
        /\ SameGroup(a, c) /\ ~SameGroup(a, b)
        /\ tasks[a].project_id = tasks[b].project_id
        /\ tasks[c].order_index = 1

\* C2, as claimed: in every reachable state the order_index values of each
\* sibling group are exactly 0 .. n-1, n the size of the group.
C2_DenseOrderIndex ==
    \A t \in DOMAIN tasks :
        {tasks[u].order_index : u \in Group(t)} = 0..(Cardinality(Group(t)) - 1)

\* C2, amended: in every reachable state the order_index values of each
\* sibling group are pairwise distinct and not negative (delete_task leaves
\* the gap of the deleted task open).
C2_UniqueOrderIndex ==
    \A t, u \in DOMAIN tasks :
        /\ tasks[t].order_index >= 0
        /\ SameGroup(t, u) /\ t # u => tasks[t].order_index # tasks[u].order_index

\* A group of two that has a gap: a task was created after a deletion.
C2_Witness ==
    \E t, u \in DOMAIN tasks :
        /\ t # u /\ SameGroup(t, u)
        /\ tasks[t].order_index = 1 /\ tasks[u].order_index = 2

\* The tasks from which following parent_id reaches one of the tasks S, on
\* the table as it is before the step; n bounds the steps taken.
RECURSIVE ReachesUp(_, _, _)
ReachesUp(t, S, n) ==
    \/ t \in S
    \/ /\ n > 0
       /\ t \in DOMAIN tasks
       /\ tasks[t].parent_id # None
       /\ ReachesUp(tasks[t].parent_id[1], S, n - 1)

Under(S) == {t \in DOMAIN tasks : ReachesUp(t, S, Cardinality(DOMAIN tasks))}

\* Every todo is still stored after the step; those that named a task the
\* step removed have lost the reference and nothing else, the others are as
\* they were.
TodosSevered ==
    /\ DOMAIN todos' = DOMAIN todos
    /\ \A d \in DOMAIN todos :
          IF todos[d].task_id # None /\ todos[d].task_id[1] \notin DOMAIN tasks'
          THEN /\ todos'[d].task_id = None
               /\ \A f \in {"id", "title", "date", "completed", "memo", "created_at"} :
                     todos'[d][f] = todos[d][f]
          ELSE todos'[d] = todos[d]

\* C3: delete_project(id) removes the project and every task of the project,
\* nested tasks included (no surviving task has lost its parent); every todo
\* that named a removed task survives with task_id absent and its other
\* fields unchanged.
C3_DeleteProjectCascades ==
    [][last'.op = "delete_project" =>
       \A id \in ProjectArgs :
          DeleteProject(id) =>
              /\ id \notin DOMAIN projects'
              /\ \A p \in DOMAIN projects \ {id} :
                    p \in DOMAIN projects' /\ projects'[p] = projects[p]
              /\ DOMAIN tasks' \subseteq DOMAIN tasks
              /\ \A t \in DOMAIN tasks :
                    tasks[t].project_id = id => t \notin DOMAIN tasks'
              /\ \A t \in DOMAIN tasks' :
                    /\ tasks'[t] = tasks[t]
                    /\ tasks[t].parent_id # None =>
                          tasks[t].parent_id[1] \in DOMAIN tasks'
              /\ TodosSevered]_vars

\* A delete_project that took a nested task with it and severed a todo.
C3_Witness ==
    /\ last.op = "delete_project"
    /\ \E t \in DOMAIN last.note.removed : last.note.removed[t].parent_id # None
    /\ \E d \in last.note.severed : todos[d].task_id = None /\ todos[d].completed = 1

\* C4: delete_task(id) removes the task and the tasks from which parent_id
\* links lead to it, and no other task; every todo that named a removed task
\* survives with task_id absent and its other fields unchanged.
C4_DeleteTaskCascades ==
    [][last'.op = "delete_task" =>
       \A id \in TaskArgs :
          DeleteTask(id) =>
              /\ DOMAIN tasks' = DOMAIN tasks \ Under({id})
              /\ \A t \in DOMAIN tasks' : tasks'[t] = tasks[t]
              /\ projects' = projects
              /\ TodosSevered]_vars

\* A delete_task that took a descendant with it, left a task in place and
\* severed a todo.
C4_Witness ==
    /\ last.op = "delete_task"
    /\ Cardinality(DOMAIN last.note.removed) >= 2
    /\ tasks # << >>
    /\ \E d \in last.note.severed : todos[d].task_id = None

\* The columns of daily_todos other than completed.
TodoFrame == {"id", "task_id", "title", "date", "memo", "created_at"}

\* C5: toggle_todo on a stored todo returns the negation of the completed
\* value stored before the call, which is the value stored after it; it
\* changes no other column and no other row; a second call on the same id
\* right after the first restores the value stored before the first.
C5_ToggleInvolution ==
    [][last'.op = "toggle_todo" =>
       \A id \in DOMAIN todos :
          ToggleTodo(id) =>
              /\ ~last'.err
              /\ last'.ret = ~(todos[id].completed = 1)
              /\ last'.ret = (todos'[id].completed = 1)
              /\ DOMAIN todos' = DOMAIN todos
              /\ \A d \in DOMAIN todos \ {id} : todos'[d] = todos[d]
              /\ \A f \in TodoFrame : todos'[id][f] = todos[id][f]
              /\ projects' = projects /\ tasks' = tasks
              /\ ((last.op = "toggle_todo" /\ ~last.err /\ last.note.id = id) =>
                     todos'[id].completed = last.note.current)]_vars

\* Two toggle_todo calls in a row on one of two stored todos.
C5_Witness ==
    /\ last.op = "toggle_todo" /\ ~last.err
    /\ last.note.again
    /\ last.ret = FALSE
    /\ Cardinality(DOMAIN todos) = 2

\* C6: get_todos_by_date(date) returns exactly the stored todos of that
\* date, each once; no completed todo comes before an incomplete one; within
\* the incomplete and within the completed todos created_at does not decrease.
C6_TodosByDateOrder ==
    last.op = "get_todos_by_date" =>
        LET r == last.ret
        IN  /\ ~last.err
            /\ {r[i].id : i \in DOMAIN r} = {d \in DOMAIN todos : todos[d].date = last.note.date}
            /\ \A i, j \in DOMAIN r : r[i].id = r[j].id => i = j
            /\ \A i \in DOMAIN r :
                  /\ \A f \in TodoFrame : r[i][f] = todos[r[i].id][f]
                  /\ r[i].completed = (todos[r[i].id].completed = 1)
            /\ \A i, j \in DOMAIN r :
                  i < j => /\ r[i].completed => r[j].completed
                           /\ r[i].completed = r[j].completed =>
                                 r[i].created_at <= r[j].created_at

\* A result that puts an incomplete todo before an older completed one.
C6_Witness ==
    /\ last.op = "get_todos_by_date"
    /\ Len(last.ret) = 2
    /\ ~last.ret[1].completed /\ last.ret[2].completed
    /\ last.ret[2].created_at < last.ret[1].created_at

\* C7: the first locked section of add_task_to_todo keeps the task's title as
\* it is stored at that moment; a successful second section inserts one new
\* row under an identifier no stored todo has, with that task, date and title,
\* completed 0 and no memo, changes no stored todo, and returns the new row.
C7_AddTaskToTodoCreates ==
    [][/\ last'.op = "add_task_to_todo.read" =>
             \A id \in DOMAIN tasks, d \in Dates :
                 AddTaskToTodoRead(id, d) =>
                     /\ ~last'.err
                     /\ \E s \in 1..MaxInFlight :
                           /\ inflight[s] = None
                           /\ inflight'[s] = Some([task_id |-> id, date |-> d,
                                                   title |-> tasks[id].title])
                     /\ store' = store
       /\ (last'.op = "add_task_to_todo" /\ ~last'.err) =>
             \A s \in 1..MaxInFlight, t \in Stamps :
                 AddTaskToTodoCreate(s, t) =>
                     \E new \in DOMAIN todos' \ DOMAIN todos :
                         /\ DOMAIN todos' = DOMAIN todos \cup {new}
                         /\ \A d \in DOMAIN todos : todos'[d] = todos[d]
                         /\ todos'[new].id = new
                         /\ todos'[new].task_id = Some(inflight[s][1].task_id)
                         /\ todos'[new].date = inflight[s][1].date
                         /\ todos'[new].title = inflight[s][1].title
                         /\ todos'[new].completed = 0
                         /\ todos'[new].memo = None
                         /\ last'.ret.id = new /\ last'.ret.completed = FALSE
                         /\ last'.ret.title = inflight[s][1].title
                         /\ projects' = projects /\ tasks' = tasks]_vars

\* Two stored todos of the same task and date, the second just added, with a
\* title the task no longer carries.
C7_Witness ==
    /\ last.op = "add_task_to_todo" /\ ~last.err
    /\ \E a, b \in DOMAIN todos :
          /\ a # b
          /\ todos[a].task_id # None
          /\ todos[a].task_id = todos[b].task_id
          /\ todos[a].date = todos[b].date
          /\ last.ret.id = b
          /\ tasks[todos[b].task_id[1]].title # todos[b].title

\* C8: update_project, update_task and update_task_dates with an identifier
\* that names no stored row return Ok and leave projects, tasks and todos as
\* they were.
C8_UpdateUnknownIsNoOp ==
    [][/\ last'.op = "update_project" =>
             \A id \in ProjectArgs \ DOMAIN projects, in \in ProjectUpdates :
                 UpdateProject(id, in) => ~last'.err /\ store' = store
       /\ last'.op = "update_task" =>
             \A id \in TaskArgs \ DOMAIN tasks, in \in TaskUpdates :
                 UpdateTask(id, in) => ~last'.err /\ store' = store
       /\ last'.op = "update_task_dates" =>
             \A id \in TaskArgs \ DOMAIN tasks, in \in DateUpdates :
                 UpdateTaskDates(id, in) => ~last'.err /\ store' = store]_vars

\* update_task that matched no row, over a store that holds a task an update
\* would have changed.
C8_Witness ==
    /\ last.op = "update_task" /\ ~last.err
    /\ last.note.changed = 0
    /\ \E t \in DOMAIN tasks : tasks[t].title = "Write spec"
    /\ projects # << >>

\* C9: toggle_todo with an identifier that names no todo, and add_task_to_todo
\* with a task_id that names no task (when the title is read, or when the
\* todo is inserted after the task was deleted in between), return an error
\* and leave projects, tasks and todos as they were.
C9_MissingTargetIsError ==
    [][/\ last'.op = "toggle_todo" =>
             \A id \in TodoArgs \ DOMAIN todos :
                 ToggleTodo(id) => last'.err /\ store' = store
       /\ last'.op \in {"add_task_to_todo", "add_task_to_todo.read"} =>
             /\ \A id \in TaskArgs \ DOMAIN tasks, d \in Dates :
                   AddTaskToTodoRead(id, d) =>
                       /\ last'.op = "add_task_to_todo" /\ last'.err
                       /\ store' = store /\ inflight' = inflight
             /\ \A s \in 1..MaxInFlight, t \in Stamps :
                   (/\ inflight[s] # None
                    /\ inflight[s][1].task_id \notin DOMAIN tasks
                    /\ AddTaskToTodoCreate(s, t)) =>
                       /\ last'.op = "add_task_to_todo" /\ last'.err
                       /\ store' = store]_vars

\* add_task_to_todo that failed at its insert, the task having been deleted
\* after its title was read.
C9_Witness ==
    /\ last.op = "add_task_to_todo" /\ last.err
    /\ last.note # None
    /\ last.note.call.task_id \notin DOMAIN tasks
    /\ tasks # << >>

\* C10: a call that returns an error leaves projects, tasks and todos as they
\* were; create_task with a project_id or parent_id that names no stored row,
\* and create_daily_todo with a task_id that names no stored task, return an
\* error.  A call returns an error or the row made of its arguments, so the
\* second part reads: the row a create returns names rows that were stored
\* when it was called.
C10_ErrorsChangeNothing ==
    [][/\ last'.err => store' = store
       /\ (last'.op = "create_task" /\ ~last'.err) =>
             /\ last'.ret.project_id \in DOMAIN projects
             /\ last'.ret.parent_id # None =>
                   last'.ret.parent_id[1] \in DOMAIN tasks
       /\ (last'.op = "create_daily_todo" /\ ~last'.err) =>
             (last'.ret.task_id # None =>
                   last'.ret.task_id[1] \in DOMAIN tasks)]_vars

\* create_daily_todo that failed over a store that holds tasks and todos.
C10_Witness ==
    /\ last.op = "create_daily_todo" /\ last.err
    /\ tasks # << >> /\ todos # << >>

\* The first line of doc that is line, 0 when there is none.
IndexOf(doc, line) ==
    IF \E i \in DOMAIN doc : doc[i] = line
    THEN CHOOSE i \in DOMAIN doc :
            doc[i] = line /\ \A j \in 1..(i - 1) : doc[j] # line
    ELSE 0

\* The lines between the heading of the completed section and the empty line
\* before the heading of the incomplete section.
CompletedSection(doc) == SubSeq(doc, 4, IndexOf(doc, HeadIncomplete) - 2)

\* The lines after the heading of the incomplete section, up to the empty line
\* before the heading of the memo section or to the end of the document.
IncompleteSection(doc) ==
    SubSeq(doc, IndexOf(doc, HeadIncomplete) + 1,
           IF IndexOf(doc, HeadMemo) = 0 THEN Len(doc)
           ELSE IndexOf(doc, HeadMemo) - 2)

\* The stored todos of a date with the given completed value.
StoredOn(date, completed) ==
    {d \in DOMAIN todos : todos[d].date = date /\ todos[d].completed = completed}

\* C11: generate_daily_report succeeds; for a date without todos and an empty
\* memo the document is the title line, an empty line, the completed heading
\* with the placeholder, an empty line and the incomplete heading with the
\* placeholder, and nothing else; a section holds the placeholder exactly when
\* the date has no todo of its kind, and then nothing but the placeholder; the
\* memo section is there exactly when the memo is not empty, and then it ends
\* the document and holds the memo.
C11_ReportPlaceholders ==
    last.op = "generate_daily_report" =>
        LET doc == last.ret
            date == last.note.date
            memo == last.note.memo
            done == CompletedSection(doc)
            open == IncompleteSection(doc)
        IN  /\ ~last.err
            /\ (TodosOn(date) = {} /\ memo = "") =>
                  doc = <<TitleLine(date), "", HeadCompleted, Placeholder,
                          "", HeadIncomplete, Placeholder>>
            /\ SubSeq(doc, 1, 3) = <<TitleLine(date), "", HeadCompleted>>
            /\ IndexOf(doc, HeadIncomplete) > 4
            /\ doc[IndexOf(doc, HeadIncomplete) - 1] = ""
            /\ (\E i \in DOMAIN done : done[i] = Placeholder) <=>
                  (StoredOn(date, 1) = {})
            /\ (StoredOn(date, 1) = {}) => done = <<Placeholder>>
            /\ (\E i \in DOMAIN open : open[i] = Placeholder) <=>
                  (StoredOn(date, 0) = {})
            /\ (StoredOn(date, 0) = {}) => open = <<Placeholder>>
            /\ (IndexOf(doc, HeadMemo) # 0) <=> (memo # "")
            /\ (memo # "") =>
                  SubSeq(doc, Len(doc) - 2, Len(doc)) = <<"", HeadMemo, memo>>

\* The report of a date without todos and with an empty memo, asked for while
\* the other date has a todo.
C11_Witness ==
    /\ last.op = "generate_daily_report"
    /\ TodosOn(last.note.date) = {}
    /\ last.note.memo = ""
    /\ todos # << >>
    /\ Len(last.ret) = 7

\* The line of an item, as the claim words it: the mark, the project name and
\* ": " when the todo has a project, the title.
ItemLine(mark, todo) ==
    IF todo.project_name = None
    THEN mark \o todo.title
    ELSE mark \o todo.project_name[1] \o ": " \o todo.title

\* The lines of the items of one section: each item's line, followed by its
\* memo line where the section shows memos and the memo is present and not
\* empty.
RECURSIVE SectionLines(_, _, _)
SectionLines(items, mark, memos) ==
    IF items = << >> THEN << >>
    ELSE <<ItemLine(mark, Head(items))>>
         \o (IF memos /\ Head(items).memo \notin {None, Some("")}
             THEN <<"  - " \o Head(items).memo[1]>>
             ELSE << >>)
         \o SectionLines(Tail(items), mark, memos)

\* C12: the rows the command fetched are the stored todos of the date, each
\* once; the completed section is the "- [x] " lines of the completed ones in
\* the fetched order, each followed by its indented memo line exactly when the
\* memo is present and not empty; the incomplete section is the "- [ ] "
\* lines of the incomplete ones in the fetched order, without memo lines.
C12_ReportItems ==
    last.op = "generate_daily_report" =>
        LET doc == last.ret
            fetched == last.note.fetched
            done == SelectSeq(fetched, LAMBDA t : todos[t.id].completed = 1)
            open == SelectSeq(fetched, LAMBDA t : todos[t.id].completed = 0)
        IN  /\ {fetched[i].id : i \in DOMAIN fetched} = TodosOn(last.note.date)
            /\ \A i, j \in DOMAIN fetched : fetched[i].id = fetched[j].id => i = j
            /\ \A i \in DOMAIN fetched :
                  /\ fetched[i].title = todos[fetched[i].id].title
                  /\ fetched[i].memo = todos[fetched[i].id].memo
            /\ done # << >> =>
                  CompletedSection(doc) = SectionLines(done, "- [x] ", TRUE)
            /\ open # << >> =>
                  IncompleteSection(doc) = SectionLines(open, "- [ ] ", FALSE)

\* The report of the example: a completed "Write spec" of project Alpha with
\* the memo "done early", an incomplete "Review PR" without a project, and the
\* memo "Focus day".
C12_Witness ==
    /\ last.op = "generate_daily_report"
    /\ last.ret = <<TitleLine("2024-01-01"), "", HeadCompleted,
                    "- [x] Alpha: Write spec", "  - done early",
                    "", HeadIncomplete, "- [ ] Review PR",
                    "", HeadMemo, "Focus day">>


\* C13: every row get_todos_by_date returns carries the title stored in its
\* todo; task_title and project_name are absent when the todo has no task_id,
\* and are the title now stored in the task and the name now stored in that
\* task's project when it has one; update_task and update_project change no
\* todo, so the todo's title stays what it was.
C13_JoinedTitles ==
    [][/\ last'.op = "get_todos_by_date" =>
             \A i \in DOMAIN last'.ret :
                 LET r == last'.ret[i]
                     d == todos[r.id]
                 IN  /\ r.title = d.title
                     /\ r.task_id = d.task_id
                     /\ d.task_id = None =>
                           r.task_title = None /\ r.project_name = None
                     /\ d.task_id # None =>
                           /\ d.task_id[1] \in DOMAIN tasks
                           /\ r.task_title = Some(tasks[d.task_id[1]].title)
                           /\ tasks[d.task_id[1]].project_id \in DOMAIN projects
                           /\ r.project_name =
                                 Some(projects[tasks[d.task_id[1]].project_id].name)
       /\ last'.op \in {"update_task", "update_project"} => todos' = todos]_vars

\* A listing with a todo of the renamed task of a renamed project, still under
\* the title it was created with, and a todo without a task, after a task
\* was deleted.
C13_Witness ==
    /\ last.op = "get_todos_by_date"
    /\ \E i, j \in DOMAIN last.ret :
          /\ last.ret[i].title = "Write spec"
          /\ last.ret[i].task_title = Some("Review PR")
          /\ last.ret[i].project_name = Some("Beta")
          /\ last.ret[j].task_id = None
          /\ last.ret[j].task_title = None
          /\ nextId.tasks > 2


\* C14: with threads calling create_task at once, a thread that stands at the
\* INSERT holds the guard, and the order_index it read is still the one the
\* query would return: nothing touched the group since the read.  No task is
\* deleted here, so the k tasks of a group carry exactly the indices 0 .. k-1,
\* no two of them the same.
C14_OrderAllocationAtomic ==
    /\ \A c \in Threads :
          threads[c].pc = "insert" =>
              /\ mutex = Some(c)
              /\ threads[c].local =
                    NextOrderIndex(threads[c].arg.project_id,
                                   threads[c].arg.parent_id)
    /\ \A t \in DOMAIN tasks :
          LET group == {u \in DOMAIN tasks :
                          /\ tasks[u].project_id = tasks[t].project_id
                          /\ tasks[u].parent_id = tasks[t].parent_id}
          IN  /\ \A u \in group \ {t} :
                    tasks[u].order_index # tasks[t].order_index
              /\ {tasks[u].order_index : u \in group} =
                    0..(Cardinality(group) - 1)

\* Two create_task calls for one group under way at once: one has read its
\* index, the other waits for the guard.
C14_Witness ==
    \E c, d \in Threads :
        /\ threads[c].pc = "insert"
        /\ threads[d].pc = "lock"
        /\ threads[d].op = "create_task"
        /\ threads[d].arg = threads[c].arg
        /\ threads[c].local = 1


\* C15: the title add_task_to_todo reads is the one stored at that moment.
\* Its insert, whatever other threads did to the task since the read, ends in
\* one of two ways: the task is still stored, the call succeeds and one new
\* todo is stored that names the task and carries the title read; or the task
\* is gone, the call fails and the todos are as they were.  Either way no todo
\* names a task that is not stored.
C15_AddRaceOutcomes ==
    [][\A c \in Threads :
          LET t == threads[c]
          IN  /\ (t.pc = "title" /\ threads'[c].pc = "relock") =>
                    threads'[c].local = tasks[t.arg.task_id].title
              /\ (t.pc = "create" /\ threads'[c].pc = "idle") =>
                    /\ last'.op = "add_task_to_todo"
                    /\ projects' = projects /\ tasks' = tasks
                    /\ IF t.arg.task_id \in DOMAIN tasks
                       THEN /\ ~last'.err
                            /\ \E new \in DOMAIN todos' \ DOMAIN todos :
                                  /\ DOMAIN todos' = DOMAIN todos \cup {new}
                                  /\ todos'[new].task_id = Some(t.arg.task_id)
                                  /\ todos'[new].title = t.local
                                  /\ todos'[new].date = t.arg.date
                            /\ \A d \in DOMAIN todos : todos'[d] = todos[d]
                       ELSE last'.err /\ todos' = todos
                    /\ \A d \in DOMAIN todos' :
                          todos'[d].task_id # None =>
                              todos'[d].task_id[1] \in DOMAIN tasks']_vars

\* add_task_to_todo has just failed because its task was deleted after the
\* title was read, while a todo added earlier still carries the title its task
\* had before an update_task.
C15_Witness ==
    /\ last.op = "add_task_to_todo" /\ last.err
    /\ last.note # None
    /\ last.note.call.task_id \notin DOMAIN tasks
    /\ \E d \in DOMAIN todos :
          /\ todos[d].task_id # None
          /\ todos[d].title = "Write spec"
          /\ tasks[todos[d].task_id[1]].title = "Review PR"

\* The positions at which a thread's next statement reads or writes the store.
AccessPcs == {"exec", "select", "insert", "title", "create"}

\* The guards a thread has taken in its call when it stands at a statement:
\* two at the create step of add_task_to_todo, one everywhere else.
GuardsTaken(t) == IF t.pc = "create" THEN 2 ELSE 1

\* C16: under every interleaving the threads that stand at a statement on the
\* store are exactly the holder of the mutex, so at most one; every step that
\* changes the store is the step of the holder and of no other thread; a call
\* of any method but add_task_to_todo takes the guard once for all of its
\* statements, and add_task_to_todo takes it once for the title read and a
\* second time for the create.
C16_OneLockedAccess ==
    /\ [](/\ \A c \in Threads :
                LET t == threads[c]
                IN  /\ t.pc \in AccessPcs <=> mutex = Some(c)
                    /\ t.pc \in AccessPcs => t.locks = GuardsTaken(t)
                    /\ t.pc = "create" => t.op = "add_task_to_todo"
                    /\ t.pc = "lock" => t.locks = 0
                    /\ t.pc = "relock" =>
                          t.op = "add_task_to_todo" /\ t.locks = 1
          /\ Cardinality({d \in Threads : threads[d].pc \in AccessPcs}) <= 1)
    /\ [][store' # store =>
            \E c \in Threads :
               /\ mutex = Some(c)
               /\ threads[c].pc \in AccessPcs
               /\ threads'[c] # threads[c]
               /\ \A d \in Threads \ {c} : threads'[d] = threads[d]]_vars

\* add_task_to_todo stands at its create with the guard taken a second time,
\* after another thread changed the store between the two sections, while
\* another thread waits for the guard.
C16_Witness ==
    \E c \in Threads, d \in Threads :
       /\ threads[c].pc = "create" /\ threads[c].locks = 2
       /\ mutex = Some(c)
       /\ threads[d].pc = "lock"
       /\ last.op \in {"update_task", "delete_task", "delete_project"}

\* A call that has not returned.
Running(c) == threads[c].pc # "idle"

\* C17: under fair scheduling every call returns and the guard it holds is
\* released; while a call is running some thread can take a step; and no
\* thread waits for the guard it holds itself, add_task_to_todo at its second
\* lock() included.
C17_EveryCallReturns ==
    /\ \A c \in Threads : Running(c) ~> ~Running(c)
    /\ \A c \in Threads : (mutex = Some(c)) ~> (mutex # Some(c))
    /\ []((\E c \in Threads : Running(c)) =>
            \E c \in Threads : ENABLED (ThreadLock(c) \/ ThreadStep(c)))
    /\ [](\A c \in Threads :
             threads[c].pc \in {"lock", "relock"} => mutex # Some(c))

\* add_task_to_todo has read the title and dropped the guard, and waits for
\* its second guard while another thread holds the mutex.
C17_Witness ==
    \E c \in Threads, d \in Threads :
       /\ threads[c].pc = "relock"
       /\ c # d
       /\ mutex = Some(d)

\* The place of the task id in a list of task rows, 0 when it is not there.
PlaceOf(list, id) ==
    IF \E i \in DOMAIN list : list[i].id = id
    THEN CHOOSE i \in DOMAIN list : list[i].id = id
    ELSE 0

\* Two rows of one sibling group.
Siblings(a, b) == a.project_id = b.project_id /\ a.parent_id = b.parent_id

\* C18: delete_task leaves every task it does not remove as it was, in every
\* field, order_index included; whatever lists get_tasks_by_project may
\* return before and after the deletion, two surviving siblings stand in the
\* same order in both.
C18_DeleteKeepsSurvivors ==
    [][\A id \in TaskArgs :
          DeleteTask(id) =>
             /\ DOMAIN tasks' \subseteq DOMAIN tasks
             /\ \A s \in DOMAIN tasks' : tasks'[s] = tasks[s]
             /\ \A p \in DOMAIN projects :
                   \A before \in TaskLists(tasks, p),
                      after \in TaskLists(tasks', p) :
                      \A a, b \in DOMAIN tasks' :
                         /\ tasks[a].project_id = p
                         /\ Siblings(tasks[a], tasks[b])
                         => (PlaceOf(before, a) < PlaceOf(before, b)
                              <=> PlaceOf(after, a) < PlaceOf(after, b))]_vars

\* A deletion took the middle one of three siblings: the two that are left
\* keep 0 and 2.
C18_Witness ==
    /\ last.op = "delete_task"
    /\ \E g \in DOMAIN last.note.removed :
          /\ last.note.removed[g].order_index = 1
          /\ \E a, b \in DOMAIN tasks :
                /\ Siblings(tasks[a], last.note.removed[g])
                /\ Siblings(tasks[b], last.note.removed[g])
                /\ tasks[a].order_index = 0
                /\ tasks[b].order_index = 2

\* The fields of a task row that no update method writes.
FixedFields(row) ==
    <<row.id, row.project_id, row.parent_id, row.order_index, row.created_at>>

\* The fields of a task row that update_task_dates does not write.
NotDates(row) ==
    <<FixedFields(row), row.title, row.description, row.status, row.priority,
      row.progress>>

\* C19: update_task writes the seven fields of its arguments into the task
\* named and update_task_dates writes the two dates; both leave the task's
\* id, project_id, parent_id, order_index and created_at, every other task,
\* the set of tasks, the projects and the todos as they were, and
\* update_task_dates leaves the task's other fields as well.
C19_UpdateFrame ==
    [][/\ last'.op = "update_task" =>
           \A id \in TaskArgs, in \in TaskUpdates :
             UpdateTask(id, in) =>
                /\ projects' = projects /\ todos' = todos
                /\ DOMAIN tasks' = DOMAIN tasks
                /\ \A t \in DOMAIN tasks \ {id} : tasks'[t] = tasks[t]
                /\ id \in DOMAIN tasks =>
                      /\ FixedFields(tasks'[id]) = FixedFields(tasks[id])
                      /\ tasks'[id].title = in.title
                      /\ tasks'[id].description = in.description
                      /\ tasks'[id].status = in.status
                      /\ tasks'[id].priority = in.priority
                      /\ tasks'[id].start_date = in.start_date
                      /\ tasks'[id].end_date = in.end_date
                      /\ tasks'[id].progress = in.progress
       /\ last'.op = "update_task_dates" =>
           \A id \in TaskArgs, in \in DateUpdates :
             UpdateTaskDates(id, in) =>
                /\ projects' = projects /\ todos' = todos
                /\ DOMAIN tasks' = DOMAIN tasks
                /\ \A t \in DOMAIN tasks \ {id} : tasks'[t] = tasks[t]
                /\ id \in DOMAIN tasks =>
                      /\ NotDates(tasks'[id]) = NotDates(tasks[id])
                      /\ tasks'[id].start_date = in.start_date
                      /\ tasks'[id].end_date = in.end_date]_vars

\* update_task_dates has just changed a task that has a parent, stands second
\* in its group and was updated by update_task before.
C19_Witness ==
    /\ last.op = "update_task_dates" /\ last.note.changed = 1
    /\ \E t \in DOMAIN tasks :
          /\ tasks[t].parent_id # None
          /\ tasks[t].order_index = 1
          /\ tasks[t].title = "Review PR"
          /\ tasks[t].start_date = NewDates.start_date
          /\ tasks[t].end_date = NewDates.end_date

\* Following parent_id from the task t reaches a task without a parent in at
\* most n steps, over stored tasks only.
RECURSIVE ReachesRoot(_, _)
ReachesRoot(t, n) ==
    IF tasks[t].parent_id = None THEN TRUE
    ELSE IF n = 0 THEN FALSE
    ELSE /\ tasks[t].parent_id[1] \in DOMAIN tasks
         /\ ReachesRoot(tasks[t].parent_id[1], n - 1)

\* C20: in every reachable state the project_id of every task names a stored
\* project, a parent_id that is present names a stored task, and following
\* parent_id from any task ends at a task without a parent.
C20_TreeWellFormed ==
    \A t \in DOMAIN tasks :
        /\ tasks[t].project_id \in DOMAIN projects
        /\ tasks[t].parent_id # None => tasks[t].parent_id[1] \in DOMAIN tasks
        /\ ReachesRoot(t, Cardinality(DOMAIN tasks))

\* delete_task took a task from the end of a chain of three, and the tasks
\* that are left still form a chain.
C20_Witness ==
    /\ last.op = "delete_task"
    /\ \E g \in DOMAIN last.note.removed :
          /\ last.note.removed[g].parent_id # None
          /\ \E t \in DOMAIN tasks :
                /\ last.note.removed[g].parent_id = Some(t)
                /\ tasks[t].parent_id # None

\* C21: in every reachable state the task_id of every todo is absent or names
\* a stored task, whatever the callers of create_daily_todo pass, whenever
\* tasks and projects are deleted, and when a task is deleted between the two
\* sections of add_task_to_todo.
C21_NoDanglingTaskId ==
    \A d \in DOMAIN todos :
        todos[d].task_id = None \/ todos[d].task_id[1] \in DOMAIN tasks

\* add_task_to_todo has just failed on a task deleted after its title was
\* read, over a store with a todo that lost its task and a todo that still
\* has one.
C21_Witness ==
    /\ last.op = "add_task_to_todo" /\ last.err
    /\ last.note # None
    /\ last.note.call.task_id \notin DOMAIN tasks
    /\ \E a, b \in DOMAIN todos :
          /\ todos[a].task_id = None
          /\ todos[b].task_id # None
    /\ nextId.tasks > Cardinality(DOMAIN tasks) + 1

\* Every task that has a parent is stored under its parent's project.
ParentInSameProject ==
    \A t \in DOMAIN tasks :
        tasks[t].parent_id # None /\ tasks[t].parent_id[1] \in DOMAIN tasks =>
            tasks[tasks[t].parent_id[1]].project_id = tasks[t].project_id

\* C22: delete_project(id) leaves every other project, and every task whose
\* project_id is not id, stored and unchanged; and in every reachable state a
\* task with a parent has the project_id of its parent.
C22_DeleteProjectFrame ==
    /\ []ParentInSameProject
    /\ [][\A id \in ProjectArgs :
             DeleteProject(id) =>
                /\ \A p \in DOMAIN projects \ {id} :
                      p \in DOMAIN projects' /\ projects'[p] = projects[p]
                /\ \A t \in DOMAIN tasks :
                      tasks[t].project_id # id =>
                         t \in DOMAIN tasks' /\ tasks'[t] = tasks[t]]_vars

\* delete_project has just removed a task of a project that is still stored.
C22_Witness ==
    /\ last.op = "delete_project"
    /\ \E g \in DOMAIN last.note.removed :
          last.note.removed[g].project_id \in DOMAIN projects


====
